---- MODULE Spec2Model ----
(***************************************************************************)
(* Model of the code-execution engine of the assessment backend           *)
(* (assessment_backend/code_executor.py, class CodeExecutor).             *)
(*                                                                         *)
(* One invocation of execute_code is a sequential process that runs in a  *)
(* slot i \in Calls.  Its steps are cut at the await points of the        *)
(* coroutine and at the places where the operating system answers         *)
(* (mkdtemp, write, spawn).  The children (compiler, run child, a         *)
(* descendant of the run child) and the event loop's observation of their *)
(* exit are steps of the environment.                                     *)
(*                                                                         *)
(* Text is a sequence of one-character strings; captured streams are      *)
(* sequences of bytes, where INV stands for a byte sequence that is not   *)
(* valid UTF-8 and SUR for a character that UTF-8 cannot encode.          *)
(* execution_time_ms is not modelled (no clock).                          *)
(*                                                                         *)
(* Further sections model get_supported_languages, the /run-code and test *)
(* endpoints of app.py over the tables of models.py, and make_llm_request *)
(* of llm.py; each has a specification of its own.                        *)
(***************************************************************************)
EXTENDS Integers, Sequences, FiniteSets, TLC

VARIABLES
    languages,   \* self.languages, the registry built by __init__
    pc,          \* pc[i]: position of invocation i in execute_code
    req,         \* req[i]: the arguments (language, source ok, stdin, timeout)
    budget,      \* budget[i]: the local `timeout` after line 102 (0: not set)
    dirs,        \* names of the directories that exist in the scratch area
    ws,          \* ws[i]: temp_dir of invocation i (0: none)
    created,     \* created[i]: directories invocation i has created
    srcWritten,  \* srcWritten[i]: Solution<ext> was written
    comp,        \* comp[i]: the compiler child of invocation i
    run,         \* run[i]: the run child of invocation i
    desc,        \* desc[i]: a process spawned by the run child is running
    spawnLog,    \* spawnLog[i]: the children spawned, in order
    result,      \* result[i]: the ExecutionResult returned (status "": none)
    raised,      \* raised[i]: the exception that left execute_code ("": none)
    origin,      \* origin[i]: the step of the invocation that built result[i]
    files,       \* files[d]: whose source the Solution file in d holds (0: none)
    gpc,         \* position of the get_supported_languages call
    gidx,        \* index of the registry item its loop is at
    glist,       \* its local list `languages`, the entries appended so far
    probe,       \* probe[k]: the version-check child started for key k
    resp,        \* resp[i]: the body /run-code answered for invocation i
    cands,       \* cands[e]: the Candidate row with email e
    mcq,         \* mcq[r]: number of Question rows with qtype "mcq", role r
    tests,       \* the Test rows, in id order, each with its Answer rows
    reply,       \* the answer to the last request to the test endpoints
    lpc,         \* position of the make_llm_request call
    attempt,     \* its loop variable `attempt`
    posts,       \* the answers its POSTs got, in order
    lret         \* what it returned or raised

execVars == <<pc, req, budget, dirs, ws, created, srcWritten, comp, run,
              desc, spawnLog, result, raised, origin, files>>

probeVars == <<gpc, gidx, glist, probe>>

appVars == <<cands, mcq, tests, reply>>

llmVars == <<lpc, attempt, posts, lret>>

svcVars == <<resp, appVars, llmVars>>

vars == <<languages, pc, req, budget, dirs, ws, created, srcWritten,
          comp, run, desc, spawnLog, result, raised, origin, files,
          gpc, gidx, glist, probe, resp, cands, mcq, tests, reply,
          lpc, attempt, posts, lret>>

---------------------------------------------------------------------------
(* Bounds and input sets *)

\* names mkdtemp can draw for a workspace directory
MaxDirs == 2
DirNames == 1..MaxDirs

\* invocation slots; Init opens slot 1 only (invocations follow one another)
Calls == {1, 2}

INV == "\\xff"
SUR == "\\ud800"

\* language ids a caller passes: the four registered ones and "c", which
\* _execute_in_temp_dir dispatches on but the registry does not hold
LanguageArgs == {"python", "java", "cpp", "javascript", "c"}

\* timeout argument: <<>> is None (omitted), <<n>> is n seconds
TimeoutArgs == {<<>>, <<2>>}

\* stdin argument: empty, a line, a text UTF-8 cannot encode
StdinArgs == {<<>>, <<"h">>, <<SUR>>}

\* what a child can leave on a captured stream
Streams == {<<>>, <<" ", "a", " ">>, <<"a", INV>>}

\* exit codes of a child that ends on its own (negative: ended by a signal)
ExitCodes == {0, 3, -11}

SIGKILLED == -9

---------------------------------------------------------------------------
(* Pure functions *)

\* CodeExecutor.__init__: the registry
InitialLanguages ==
    [python     |-> [name |-> "Python", extension |-> ".py",
                     run_command |-> <<"python3">>, timeout |-> 30,
                     version_cmd |-> <<"python3", "--version">>],
     java       |-> [name |-> "Java", extension |-> ".java",
                     compile_command |-> <<"javac">>,
                     run_command |-> <<"java">>, timeout |-> 30,
                     version_cmd |-> <<"java", "--version">>],
     cpp        |-> [name |-> "C++", extension |-> ".cpp",
                     compile_command |-> <<"g++", "-o", "solution">>,
                     run_command |-> <<"./solution">>, timeout |-> 30,
                     version_cmd |-> <<"g++", "--version">>],
     javascript |-> [name |-> "JavaScript", extension |-> ".js",
                     run_command |-> <<"node">>, timeout |-> 30,
                     version_cmd |-> <<"node", "--version">>]]

\* `language not in self.languages`
IsRegistered(l) == l \in DOMAIN languages

\* dict lookup config[key]: raises KeyError when the key is absent
HasKey(config, key) == key \in DOMAIN config

\* a variant of RunPath that sends javascript down the compiled path
RunPathNodeCompiled(l) ==
    IF l = "python" THEN "_run_python"
    ELSE IF l = "java" THEN "_run_java"
    ELSE IF l \in {"cpp", "c", "javascript"} THEN "_run_compiled"
    ELSE "not implemented"

\* the dispatch of _execute_in_temp_dir: which _run_* a language reaches
RunPath(l) ==
    IF l = "python" THEN "_run_python"
    ELSE IF l = "java" THEN "_run_java"
    ELSE IF l \in {"cpp", "c"} THEN "_run_compiled"
    ELSE IF l = "javascript" THEN "_run_javascript"
    ELSE "not implemented"

\* a variant of HasCompilePhase that sends every language through a compiler
HasCompilePhaseAlways(l) == TRUE

\* _run_java and _run_compiled start with a compile phase
HasCompilePhase(l) == RunPath(l) \in {"_run_java", "_run_compiled"}

\* bytes.decode('utf-8', errors='ignore'): invalid bytes are dropped
Decode(bs) == SelectSeq(bs, LAMBDA b : b # INV)

\* str.encode('utf-8') raises UnicodeEncodeError on a lone surrogate
Encodable(s) == \A k \in 1..Len(s) : s[k] # SUR

\* the characters str.strip() removes
IsSpace(c) == c \in {" ", "\n"}

RECURSIVE LStrip(_)
LStrip(s) == IF s # <<>> /\ IsSpace(Head(s)) THEN LStrip(Tail(s)) ELSE s

RECURSIVE RStrip(_)
RStrip(s) ==
    IF s # <<>> /\ IsSpace(s[Len(s)])
    THEN RStrip(SubSeq(s, 1, Len(s) - 1)) ELSE s

\* str.strip()
Strip(s) == RStrip(LStrip(s))

\* `process.returncode or 0`
OrZero(rc) == IF rc = 0 THEN 0 ELSE rc

\* a variant of ExecutionResult that keeps the default timeout = False
ExecutionResultTimeoutDropped(out, err, code, st, to) ==
    [stdout |-> out, stderr |-> err, exit_code |-> code, status |-> st,
     timeout |-> FALSE]

\* ExecutionResult.__init__ (execution_time_ms, memory_usage_mb left out)
ExecutionResult(out, err, code, st, to) ==
    [stdout |-> out, stderr |-> err, exit_code |-> code, status |-> st,
     timeout |-> to]

NoResult == ExecutionResult(<<>>, <<>>, 0, "", FALSE)

\* a variant of Status that looks at the exit code before the timeout flag
StatusExitCodeFirst(timeout_occurred, returncode) ==
    IF returncode # 0 THEN "Runtime Error"
    ELSE IF timeout_occurred THEN "Time Limit Exceeded"
    ELSE "Accepted"

\* the status computed after the run phase
Status(timeout_occurred, returncode) ==
    IF timeout_occurred THEN "Time Limit Exceeded"
    ELSE IF returncode # 0 THEN "Runtime Error"
    ELSE "Accepted"

\* a variant of RunResult that returns the decoded streams untrimmed
RunResultUntrimmed(out, err, returncode, timeout_occurred) ==
    ExecutionResult(Decode(out), Decode(err), OrZero(returncode),
                    Status(timeout_occurred, returncode), timeout_occurred)

\* the ExecutionResult built at the end of a run phase
RunResult(out, err, returncode, timeout_occurred) ==
    ExecutionResult(Strip(Decode(out)), Strip(Decode(err)),
                    OrZero(returncode),
                    Status(timeout_occurred, returncode), timeout_occurred)

\* a variant of CompileErrorResult that reports the exit code 1 of the
\* generic handlers instead of the compiler's
CompileErrorResultExitOne(err, returncode) ==
    ExecutionResult(<<>>, Decode(err), 1, "Compilation Error", FALSE)

\* the ExecutionResult built when the compiler exits non-zero
CompileErrorResult(err, returncode) ==
    ExecutionResult(<<>>, Decode(err), returncode, "Compilation Error", FALSE)

\* a variant of ErrorResult that leaves exit_code at its default
ErrorResultExitZero(msg) ==
    ExecutionResult(<<>>, msg, 0, "Runtime Error", FALSE)

\* the ExecutionResult both `except Exception as e` handlers build
ErrorResult(msg) ==
    ExecutionResult(<<>>, msg, 1, "Runtime Error", FALSE)

\* b"Time Limit Exceeded"
TLEBytes == <<"Time Limit Exceeded">>

\* str(e) of the exceptions the handlers can catch
StrOf(e) == IF e = "ProcessLookupError" THEN <<>> ELSE <<e>>

\* a variant of Entry that looks the language up without the membership test
EntryUnchecked(l, t) ==
    IF t = <<>>
    THEN [pc |-> "raised", raised |-> "KeyError", timeout |-> 0]
    ELSE [pc |-> "entered", raised |-> "", timeout |-> t[1]]

\* execute_code, lines 98-102: where the call stands after the language
\* check and `timeout if timeout is not None else config["default_timeout"]`
Entry(l, t) ==
    IF ~IsRegistered(l)
    THEN [pc |-> "raised", raised |-> "ValueError", timeout |-> 0]
    ELSE IF t = <<>> /\ ~HasKey(languages[l], "default_timeout")
    THEN [pc |-> "raised", raised |-> "KeyError", timeout |-> 0]
    ELSE [pc |-> "entered", raised |-> "",
          timeout |-> IF t # <<>> THEN t[1]
                      ELSE languages[l].default_timeout]

\* a variant of CompileFailed that lets every compiler exit pass
CompileFailedNever(returncode) == FALSE

\* `if compile_process.returncode != 0`
CompileFailed(returncode) == returncode # 0

\* a variant of Killed in which kill() sends no signal
KilledNot(state) == state

\* process.kill(): the state of the run child after it; SIGKILL ends a
\* running child, a child that has ended is left alone
Killed(state) == IF state = "running" THEN "killed" ELSE state

\* a variant of FreshNames that can hand out the name of an existing directory
AnyNames == DirNames

\* mkdtemp: the names it can give a new directory, those no existing
\* directory has
FreshNames == DirNames \ dirs

\* no version-check child
NoProbe == [state |-> "none", code |-> 0, out |-> <<>>]

\* the order in which self.languages.items() yields the registry
LanguageKeys == <<"python", "java", "cpp", "javascript">>

\* what a version command can print; exit codes it can end with
ProbeOutputs == {<<"v", "\n", "w", "\n">>, <<INV>>}
ProbeExitCodes == {0, 1}

\* bytes.decode() without errors=: raises UnicodeDecodeError on a bad byte
DecodableStrict(bs) == \A k \in 1..Len(bs) : bs[k] # INV

RECURSIVE FirstLine(_)
\* s.split('\n')[0]
FirstLine(s) ==
    IF s = <<>> \/ Head(s) = "\n" THEN <<>>
    ELSE <<Head(s)>> \o FirstLine(Tail(s))

NotAvailable == <<"Not available">>

\* a variant of Available that takes every exit of the probe for success
AvailableAlways(returncode) == TRUE

\* `if process.returncode == 0`
Available(returncode) == returncode = 0

\* the dict appended to the list at the end of an iteration
LanguageEntry(n, key, version, available) ==
    [id |-> n, name |-> languages[key].name, key |-> key,
     version |-> version, timeout_seconds |-> languages[key].timeout,
     memory_limit_mb |-> 256, available |-> available]

\* lines 75-83: version and available after communicate() came back with
\* `returncode` and `out`; a decode error lands in the bare except
ProbeVerdict(returncode, out) ==
    IF Available(returncode) /\ DecodableStrict(out)
    THEN [version |-> FirstLine(Strip(out)), available |-> TRUE]
    ELSE [version |-> NotAvailable, available |-> FALSE]

NoChild == [state |-> "none", code |-> 0, out |-> <<>>, err |-> <<>>,
            hangs |-> FALSE, input |-> <<>>, stdinClosed |-> FALSE,
            atTimeout |-> "", program |-> 0]

Done(i) == pc[i] \in {"returned", "raised"}

---------------------------------------------------------------------------
(* The service around the executor (app.py) and the LLM client (llm.py) *)

Emails == {"a", "b"}
Roles == {"backend", "java"}

\* no Candidate row
NoCandidate ==
    [exists |-> FALSE, authorized |-> FALSE, has_taken_test |-> FALSE,
     role |-> "backend"]

NoBody == [status |-> "", execution_status |-> "", output |-> <<>>,
           error |-> <<>>]

NoReply == [op |-> "", code |-> 0]

\* app.py as imported, empty tables; no LLM request under way
ServicesInit ==
    /\ resp = [i \in Calls |-> NoBody]
    /\ cands = [e \in Emails |-> NoCandidate]
    /\ mcq = [r \in Roles |-> 0]
    /\ tests = <<>>
    /\ reply = NoReply
    /\ lpc = "idle"
    /\ attempt = 0
    /\ posts = <<>>
    /\ lret = [kind |-> "", text |-> "", desc |-> ""]

---------------------------------------------------------------------------
(* Initial state: the executor is constructed, no invocation has started *)

Init ==
    /\ languages = InitialLanguages
    /\ pc = [i \in Calls |-> IF i = 1 THEN "idle" ELSE "off"]
    /\ req = [i \in Calls |-> [language |-> "", stdin |-> <<>>, timeout |-> <<>>]]
    /\ budget = [i \in Calls |-> 0]
    /\ dirs = {}
    /\ ws = [i \in Calls |-> 0]
    /\ created = [i \in Calls |-> 0]
    /\ srcWritten = [i \in Calls |-> FALSE]
    /\ comp = [i \in Calls |-> NoChild]
    /\ run = [i \in Calls |-> NoChild]
    /\ desc = [i \in Calls |-> FALSE]
    /\ spawnLog = [i \in Calls |-> <<>>]
    /\ result = [i \in Calls |-> NoResult]
    /\ raised = [i \in Calls |-> ""]
    /\ origin = [i \in Calls |-> ""]
    /\ files = [d \in DirNames |-> 0]
    /\ gpc = "idle"
    /\ gidx = 0
    /\ glist = <<>>
    /\ probe = [k \in DOMAIN InitialLanguages |-> NoProbe]
    /\ ServicesInit

---------------------------------------------------------------------------
(* Leaving execute_code *)

\* `return` from inside `with tempfile.TemporaryDirectory()`: the directory
\* is removed on the way out, then the caller gets the result
Return(i, res, org) ==
    /\ pc' = [pc EXCEPT ![i] = "returned"]
    /\ result' = [result EXCEPT ![i] = res]
    /\ origin' = [origin EXCEPT ![i] = org]
    /\ dirs' = dirs \ {ws[i]}
    /\ files' = [d \in DirNames |-> IF d = ws[i] THEN 0 ELSE files[d]]
    /\ UNCHANGED <<languages, req, budget, ws, created, raised>>

\* an exception leaves execute_code
Raise(i, e) ==
    /\ pc' = [pc EXCEPT ![i] = "raised"]
    /\ raised' = [raised EXCEPT ![i] = e]
    /\ dirs' = dirs \ {ws[i]}
    /\ files' = [d \in DirNames |-> IF d = ws[i] THEN 0 ELSE files[d]]
    /\ UNCHANGED <<languages, req, budget, ws, created, result, origin>>

---------------------------------------------------------------------------
(* execute_code, lines 97-103: language check and timeout default *)

execute_code(i, l, s, t) ==
    /\ pc[i] \in {"idle", "returned", "raised"}
    /\ req' = [req EXCEPT ![i] = [language |-> l, stdin |-> s, timeout |-> t]]
    /\ ws' = [ws EXCEPT ![i] = 0]
    /\ created' = [created EXCEPT ![i] = 0]
    /\ srcWritten' = [srcWritten EXCEPT ![i] = FALSE]
    /\ comp' = [comp EXCEPT ![i] = NoChild]
    /\ run' = [run EXCEPT ![i] = NoChild]
    /\ desc' = [desc EXCEPT ![i] = FALSE]
    /\ spawnLog' = [spawnLog EXCEPT ![i] = <<>>]
    /\ result' = [result EXCEPT ![i] = NoResult]
    /\ origin' = [origin EXCEPT ![i] = ""]
    /\ pc' = [pc EXCEPT ![i] = Entry(l, t).pc]
    /\ raised' = [raised EXCEPT ![i] = Entry(l, t).raised]
    /\ budget' = [budget EXCEPT ![i] = Entry(l, t).timeout]
    /\ UNCHANGED probeVars
    /\ UNCHANGED svcVars
    /\ UNCHANGED <<languages, dirs, files>>

(* line 106: tempfile.TemporaryDirectory() makes a directory under a name   *)
(* no existing directory has, or fails; a failure is outside every try     *)
TemporaryDirectory(i) ==
    /\ pc[i] = "entered"
    /\ \/ \E d \in FreshNames :
            /\ dirs' = dirs \cup {d}
            /\ ws' = [ws EXCEPT ![i] = d]
            /\ created' = [created EXCEPT ![i] = @ + 1]
            /\ pc' = [pc EXCEPT ![i] = "in_ws"]
            /\ UNCHANGED <<raised, files>>
       \/ /\ pc' = [pc EXCEPT ![i] = "raised"]
          /\ raised' = [raised EXCEPT ![i] = "OSError"]
          /\ UNCHANGED <<dirs, files, ws, created>>
    /\ UNCHANGED probeVars
    /\ UNCHANGED svcVars
    /\ UNCHANGED <<languages, req, budget, srcWritten, comp, run, desc,
                   spawnLog, result, origin>>

(* _execute_in_temp_dir, lines 122-138: write the source file (outside the *)
(* inner try, so a failure reaches the handler of execute_code) and pick   *)
(* the language path                                                       *)
write_source(i) ==
    /\ pc[i] = "in_ws"
    /\ \/ /\ srcWritten' = [srcWritten EXCEPT ![i] = TRUE]
          /\ IF RunPath(req[i].language) = "not implemented"
             THEN Return(i, ErrorResult(<<"not implemented">>),
                         "not implemented")
             ELSE /\ pc' = [pc EXCEPT ![i] =
                              IF HasCompilePhase(req[i].language)
                              THEN "spawn_compile" ELSE "spawn_run"]
                  /\ files' = [files EXCEPT ![ws[i]] = i]
                  /\ UNCHANGED <<languages, req, budget, dirs, ws, created,
                                 result, raised, origin>>
       \/ /\ Return(i, ErrorResult(StrOf("OSError")), "write_source")
          /\ UNCHANGED srcWritten
    /\ UNCHANGED probeVars
    /\ UNCHANGED svcVars
    /\ UNCHANGED <<comp, run, desc, spawnLog>>
---------------------------------------------------------------------------
(* Compile phase of _run_java (192-210) and _run_compiled (254-272) *)

\* create_subprocess_exec of the compiler: the child starts (it may be one
\* that never exits), or the spawn raises inside the try of line 128
spawn_compiler(i) ==
    /\ pc[i] = "spawn_compile"
    /\ \/ /\ \E h \in BOOLEAN :
                comp' = [comp EXCEPT ![i] =
                           [NoChild EXCEPT !.state = "running", !.hangs = h,
                                           !.program = files[ws[i]]]]
          /\ spawnLog' = [spawnLog EXCEPT ![i] = Append(@, "compile")]
          /\ pc' = [pc EXCEPT ![i] = "compile_wait"]
          /\ UNCHANGED <<languages, req, budget, dirs, files, ws, created, result,
                         raised, origin>>
       \/ /\ Return(i, ErrorResult(StrOf("FileNotFoundError")),
                    "spawn_compiler")
          /\ UNCHANGED <<comp, spawnLog>>
    /\ UNCHANGED probeVars
    /\ UNCHANGED svcVars
    /\ UNCHANGED <<srcWritten, run, desc>>

\* environment: the compiler ends with an exit code and a stderr
CompilerExits(i, c, e) ==
    /\ comp[i].state = "running"
    /\ ~comp[i].hangs
    /\ comp' = [comp EXCEPT ![i].state = "exited", ![i].code = c, ![i].err = e]
    /\ UNCHANGED probeVars
    /\ UNCHANGED svcVars
    /\ UNCHANGED <<languages, pc, req, budget, dirs, files, ws, created, srcWritten,
                   run, desc, spawnLog, result, raised, origin>>

\* `await compile_process.communicate()` comes back (no timeout guards it);
\* a non-zero returncode ends the invocation, zero lets the run phase start
compile_done(i) ==
    /\ pc[i] = "compile_wait"
    /\ comp[i].state = "exited"
    /\ comp' = [comp EXCEPT ![i].state = "reaped"]
    /\ IF CompileFailed(comp[i].code)
       THEN Return(i, CompileErrorResult(comp[i].err, comp[i].code), "compile")
       ELSE /\ pc' = [pc EXCEPT ![i] = "spawn_run"]
            /\ UNCHANGED <<languages, req, budget, dirs, files, ws, created, result,
                           raised, origin>>
    /\ UNCHANGED probeVars
    /\ UNCHANGED svcVars
    /\ UNCHANGED <<srcWritten, run, desc, spawnLog>>

---------------------------------------------------------------------------
(* Run phase, the same text in _run_python (152-187), _run_java (214-249), *)
(* _run_compiled (275-310) and _run_javascript (315-350)                   *)

\* create_subprocess_exec of the run command
spawn_run(i) ==
    /\ pc[i] = "spawn_run"
    /\ \/ /\ \E h \in BOOLEAN :
                run' = [run EXCEPT ![i] =
                          [NoChild EXCEPT !.state = "running", !.hangs = h,
                                          !.program = files[ws[i]]]]
          /\ spawnLog' = [spawnLog EXCEPT ![i] = Append(@, "run")]
          /\ pc' = [pc EXCEPT ![i] = "communicate"]
          /\ UNCHANGED <<languages, req, budget, dirs, files, ws, created, result,
                         raised, origin>>
       \/ /\ Return(i, ErrorResult(StrOf("FileNotFoundError")),
                    "spawn_run")
          /\ UNCHANGED <<run, spawnLog>>
    /\ UNCHANGED probeVars
    /\ UNCHANGED svcVars
    /\ UNCHANGED <<srcWritten, comp, desc>>

\* `process.communicate(input=stdin.encode('utf-8') if stdin else None)`
\* under wait_for: encoding can raise (no handler in _run_*, the child is
\* left as it is); a non-empty stdin is written and the pipe closed; an
\* empty stdin gives input=None, and communicate leaves the pipe open
communicate(i) ==
    /\ pc[i] = "communicate"
    /\ IF ~Encodable(req[i].stdin)
       THEN /\ Return(i, ErrorResult(StrOf("UnicodeEncodeError")),
                      "encode")
            /\ UNCHANGED run
       ELSE /\ run' = [run EXCEPT ![i].input = req[i].stdin,
                                  ![i].stdinClosed = (req[i].stdin # <<>>)]
            /\ pc' = [pc EXCEPT ![i] = "run_wait"]
            /\ UNCHANGED <<languages, req, budget, dirs, files, ws, created, result,
                           raised, origin>>
    /\ UNCHANGED probeVars
    /\ UNCHANGED svcVars
    /\ UNCHANGED <<srcWritten, comp, desc, spawnLog>>

\* environment: the run child ends on its own with an exit code and output
RunChildExits(i, c, o, e) ==
    /\ run[i].state = "running"
    /\ ~run[i].hangs
    /\ run' = [run EXCEPT ![i].state = "exited", ![i].code = c,
                          ![i].out = o, ![i].err = e]
    /\ UNCHANGED probeVars
    /\ UNCHANGED svcVars
    /\ UNCHANGED <<languages, pc, req, budget, dirs, files, ws, created, srcWritten,
                   comp, desc, spawnLog, result, raised, origin>>

\* environment: the running run child starts a process of its own
SpawnDescendant(i) ==
    /\ run[i].state = "running"
    /\ ~desc[i]
    /\ desc' = [desc EXCEPT ![i] = TRUE]
    /\ UNCHANGED probeVars
    /\ UNCHANGED svcVars
    /\ UNCHANGED <<languages, pc, req, budget, dirs, files, ws, created, srcWritten,
                   comp, run, spawnLog, result, raised, origin>>

\* environment: that process ends on its own
DescendantExits(i) ==
    /\ desc[i]
    /\ desc' = [desc EXCEPT ![i] = FALSE]
    /\ UNCHANGED probeVars
    /\ UNCHANGED svcVars
    /\ UNCHANGED <<languages, pc, req, budget, dirs, files, ws, created, srcWritten,
                   comp, run, spawnLog, result, raised, origin>>

\* the event loop, while the coroutine is suspended, handles the exit of the
\* run child and the closing of its pipes: the subprocess transport is
\* closed and the communicate() future, unless cancelled, has its result
LoopObservesExit(i) ==
    /\ pc[i] \in {"run_wait", "cancelling"}
    /\ run[i].state = "exited"
    /\ run' = [run EXCEPT ![i].state = "closed"]
    /\ UNCHANGED probeVars
    /\ UNCHANGED svcVars
    /\ UNCHANGED <<languages, pc, req, budget, dirs, files, ws, created, srcWritten,
                   comp, desc, spawnLog, result, raised, origin>>

\* wait_for returns the streams: timeout_occurred = False
wait_for_returns(i) ==
    /\ pc[i] = "run_wait"
    /\ run[i].state = "closed"
    /\ Return(i, RunResult(run[i].out, run[i].err, run[i].code, FALSE), "run")
    /\ UNCHANGED probeVars
    /\ UNCHANGED svcVars
    /\ UNCHANGED <<srcWritten, comp, run, desc, spawnLog>>

\* the timer of wait_for fires before communicate() is done: wait_for
\* cancels communicate() and waits for the cancellation to finish
wait_for_timeout(i) ==
    /\ pc[i] = "run_wait"
    /\ run[i].state \in {"running", "exited"}
    /\ run' = [run EXCEPT ![i].atTimeout = run[i].state]
    /\ pc' = [pc EXCEPT ![i] = "cancelling"]
    /\ UNCHANGED probeVars
    /\ UNCHANGED svcVars
    /\ UNCHANGED <<languages, req, budget, dirs, files, ws, created, srcWritten,
                   comp, desc, spawnLog, result, raised, origin>>

\* `except asyncio.TimeoutError: process.kill()`: SIGKILL goes to the run
\* child alone; a child that has ended is not signalled; on a closed
\* transport kill() raises ProcessLookupError, which no handler of _run_*
\* catches
kill(i) ==
    /\ pc[i] = "cancelling"
    /\ IF run[i].state = "closed"
       THEN /\ Return(i, ErrorResult(StrOf("ProcessLookupError")),
                      "kill")
            /\ UNCHANGED run
       ELSE /\ run' = [run EXCEPT ![i].state = Killed(@),
                                  ![i].code =
                                     IF Killed(run[i].state) = "killed"
                                     THEN SIGKILLED ELSE @]
            /\ pc' = [pc EXCEPT ![i] = "reaping"]
            /\ UNCHANGED <<languages, req, budget, dirs, files, ws, created, result,
                           raised, origin>>
    /\ UNCHANGED probeVars
    /\ UNCHANGED svcVars
    /\ UNCHANGED <<srcWritten, comp, desc, spawnLog>>

\* `await process.wait()` comes back, then lines 169-187: the output is
\* replaced and the result built.  returncode is the child's (255 when the
\* watcher finds the child already reaped)
process_wait(i) ==
    /\ pc[i] = "reaping"
    /\ run[i].state \in {"killed", "exited"}
    /\ \E rc \in {run[i].code} \cup
                 (IF run[i].state = "exited" THEN {255} ELSE {}) :
          Return(i, RunResult(<<>>, TLEBytes, rc, TRUE), "run")
    /\ run' = [run EXCEPT ![i].state = "reaped"]
    /\ UNCHANGED probeVars
    /\ UNCHANGED svcVars
    /\ UNCHANGED <<srcWritten, comp, desc, spawnLog>>

---------------------------------------------------------------------------

Next ==
    \/ \E i \in Calls, l \in LanguageArgs, s \in StdinArgs, t \in TimeoutArgs :
          execute_code(i, l, s, t)
    \/ \E i \in Calls : TemporaryDirectory(i)
    \/ \E i \in Calls : write_source(i)
    \/ \E i \in Calls : spawn_compiler(i)
    \/ \E i \in Calls, c \in ExitCodes, e \in Streams : CompilerExits(i, c, e)
    \/ \E i \in Calls : compile_done(i)
    \/ \E i \in Calls : spawn_run(i)
    \/ \E i \in Calls : communicate(i)
    \/ \E i \in Calls, c \in ExitCodes, o \in Streams, e \in Streams :
          RunChildExits(i, c, o, e)
    \/ \E i \in Calls : SpawnDescendant(i)
    \/ \E i \in Calls : DescendantExits(i)
    \/ \E i \in Calls : LoopObservesExit(i)
    \/ \E i \in Calls : wait_for_returns(i)
    \/ \E i \in Calls : wait_for_timeout(i)
    \/ \E i \in Calls : kill(i)
    \/ \E i \in Calls : process_wait(i)

Spec == Init /\ [][Next]_vars

TypeOK ==
    /\ languages = InitialLanguages
    /\ pc \in [Calls -> {"off", "idle", "entered", "in_ws", "spawn_compile",
                         "compile_wait", "spawn_run", "communicate",
                         "run_wait", "cancelling", "reaping", "returned",
                         "raised"}]
    /\ dirs \subseteq DirNames
    /\ \A i \in Calls : ws[i] \in DirNames \cup {0}
    /\ \A i \in Calls : created[i] \in 0..1
    /\ \A i \in Calls : budget[i] \in {0, 2, 30}
    /\ files \in [DirNames -> Calls \cup {0}]
    /\ gpc \in {"idle", "spawn", "wait", "returned"}
    /\ \A i \in Calls : resp[i].status \in {"", "success", "timeout", "error"}
    /\ \A e \in Emails : cands[e].role \in Roles
    /\ \A r \in Roles : mcq[r] \in Nat
    /\ \A k \in 1..Len(tests) : tests[k].candidate_id \in Emails
    /\ lpc \in {"idle", "post", "sleep", "returned", "raised"}
    /\ attempt \in Nat

\* the scheduling the event loop gives one invocation: a timer that is armed
\* fires, and a coroutine whose awaited step is complete is resumed
LiveSpec ==
    /\ Spec
    /\ \A i \in Calls : /\ WF_vars(wait_for_timeout(i))
                        /\ WF_vars(kill(i))
                        /\ WF_vars(process_wait(i))

---------------------------------------------------------------------------
(* get_supported_languages, lines 63-95 *)

\* end of an iteration: append the entry, go to the next item or return
Append_entry(key, verdict) ==
    /\ glist' = Append(glist, LanguageEntry(gidx, key, verdict.version,
                                            verdict.available))
    /\ gidx' = gidx + 1
    /\ gpc' = IF gidx = Len(LanguageKeys) THEN "returned" ELSE "spawn"

\* a variant of get_supported_languages that keeps the probe timeout in the
\* registry entry it is about to probe
get_supported_languages_stash ==
    /\ gpc \in {"idle", "returned"}
    /\ glist' = <<>>
    /\ gidx' = 1
    /\ probe' = [k \in DOMAIN InitialLanguages |-> NoProbe]
    /\ gpc' = "spawn"
    /\ languages' = [languages EXCEPT !["python"].timeout = 5]
    /\ UNCHANGED execVars
    /\ UNCHANGED svcVars

\* the call starts: `languages = []`, first item of the registry
get_supported_languages ==
    /\ gpc \in {"idle", "returned"}
    /\ glist' = <<>>
    /\ gidx' = 1
    /\ probe' = [k \in DOMAIN InitialLanguages |-> NoProbe]
    /\ gpc' = "spawn"
    /\ UNCHANGED languages
    /\ UNCHANGED execVars
    /\ UNCHANGED svcVars

\* create_subprocess_exec(*config["version_cmd"]): the child starts, or the
\* spawn raises (binary missing) and the bare except takes over
probe_spawn ==
    /\ gpc = "spawn"
    /\ LET key == LanguageKeys[gidx] IN
          \/ /\ probe' = [probe EXCEPT ![key].state = "running"]
             /\ gpc' = "wait"
             /\ UNCHANGED <<gidx, glist>>
          \/ /\ probe' = [probe EXCEPT ![key].state = "missing"]
             /\ Append_entry(key, [version |-> NotAvailable,
                                   available |-> FALSE])
    /\ UNCHANGED languages
    /\ UNCHANGED execVars
    /\ UNCHANGED svcVars

\* environment: the version command ends
ProbeExits(c, o) ==
    /\ gpc = "wait"
    /\ probe[LanguageKeys[gidx]].state = "running"
    /\ probe' = [probe EXCEPT ![LanguageKeys[gidx]] =
                    [state |-> "exited", code |-> c, out |-> o]]
    /\ UNCHANGED <<languages, gpc, gidx, glist>>
    /\ UNCHANGED execVars
    /\ UNCHANGED svcVars

\* wait_for(process.communicate(), timeout=5) comes back with the output
probe_returns ==
    /\ gpc = "wait"
    /\ LET key == LanguageKeys[gidx] IN
          /\ probe[key].state = "exited"
          /\ probe' = [probe EXCEPT ![key].state = "reaped"]
          /\ Append_entry(key, ProbeVerdict(probe[key].code, probe[key].out))
    /\ UNCHANGED languages
    /\ UNCHANGED execVars
    /\ UNCHANGED svcVars

\* the 5 seconds pass first: TimeoutError lands in the bare except, which
\* neither kills the child nor waits for it
probe_timeout ==
    /\ gpc = "wait"
    /\ LET key == LanguageKeys[gidx] IN
          /\ probe' = [probe EXCEPT ![key].state =
                          IF @ = "running" THEN "abandoned" ELSE "unreaped"]
          /\ Append_entry(key, [version |-> NotAvailable,
                                available |-> FALSE])
    /\ UNCHANGED languages
    /\ UNCHANGED execVars
    /\ UNCHANGED svcVars

\* environment: a version command that was left running ends
StrayProbeExits(k) ==
    /\ probe[k].state = "abandoned"
    /\ probe' = [probe EXCEPT ![k].state = "gone"]
    /\ UNCHANGED <<languages, gpc, gidx, glist>>
    /\ UNCHANGED execVars
    /\ UNCHANGED svcVars

ProbeNext ==
    \/ get_supported_languages
    \/ probe_spawn
    \/ \E c \in ProbeExitCodes, o \in ProbeOutputs : ProbeExits(c, o)
    \/ probe_returns
    \/ probe_timeout
    \/ \E k \in DOMAIN InitialLanguages : StrayProbeExits(k)

ProbeSpec == Init /\ [][ProbeNext]_vars

---------------------------------------------------------------------------
(* Overlapping invocations: both slots are open from the start.  The steps *)
(* are those of Next; the arguments and the children's outcomes are drawn  *)
(* from smaller sets so that two invocations can be interleaved in full.   *)

SmallLanguageArgs == {"python", "cpp"}
SmallStdinArgs == {<<"h">>}
SmallTimeoutArgs == {<<2>>}
SmallStreams == {<<>>, <<" ", "a", " ">>}
SmallExitCodes == {0, 3}

ConcInit ==
    /\ languages = InitialLanguages
    /\ pc = [i \in Calls |-> "idle"]
    /\ req = [i \in Calls |-> [language |-> "", stdin |-> <<>>, timeout |-> <<>>]]
    /\ budget = [i \in Calls |-> 0]
    /\ dirs = {}
    /\ ws = [i \in Calls |-> 0]
    /\ created = [i \in Calls |-> 0]
    /\ srcWritten = [i \in Calls |-> FALSE]
    /\ comp = [i \in Calls |-> NoChild]
    /\ run = [i \in Calls |-> NoChild]
    /\ desc = [i \in Calls |-> FALSE]
    /\ spawnLog = [i \in Calls |-> <<>>]
    /\ result = [i \in Calls |-> NoResult]
    /\ raised = [i \in Calls |-> ""]
    /\ origin = [i \in Calls |-> ""]
    /\ files = [d \in DirNames |-> 0]
    /\ gpc = "idle"
    /\ gidx = 0
    /\ glist = <<>>
    /\ probe = [k \in DOMAIN InitialLanguages |-> NoProbe]
    /\ ServicesInit

ConcNext ==
    \/ \E i \in Calls, l \in SmallLanguageArgs, s \in SmallStdinArgs,
          t \in SmallTimeoutArgs : execute_code(i, l, s, t)
    \/ \E i \in Calls : TemporaryDirectory(i)
    \/ \E i \in Calls : write_source(i)
    \/ \E i \in Calls : spawn_compiler(i)
    \/ \E i \in Calls, c \in SmallExitCodes, e \in SmallStreams :
          CompilerExits(i, c, e)
    \/ \E i \in Calls : compile_done(i)
    \/ \E i \in Calls : spawn_run(i)
    \/ \E i \in Calls : communicate(i)
    \/ \E i \in Calls, c \in SmallExitCodes, o \in SmallStreams,
          e \in SmallStreams : RunChildExits(i, c, o, e)
    \/ \E i \in Calls : LoopObservesExit(i)
    \/ \E i \in Calls : wait_for_returns(i)
    \/ \E i \in Calls : wait_for_timeout(i)
    \/ \E i \in Calls : kill(i)
    \/ \E i \in Calls : process_wait(i)

ConcSpec == ConcInit /\ [][ConcNext]_vars

---------------------------------------------------------------------------
(* Two invocations one after the other, each in any of the four registered *)
(* languages: the second starts when the first is over, so that what the   *)
(* two language paths did with the same child outcomes can be compared.    *)

PathStep(i) ==
    \/ \E l \in DOMAIN InitialLanguages, s \in SmallStdinArgs,
          t \in SmallTimeoutArgs : execute_code(i, l, s, t)
    \/ TemporaryDirectory(i)
    \/ write_source(i)
    \/ spawn_compiler(i)
    \/ \E c \in SmallExitCodes : CompilerExits(i, c, <<"a">>)
    \/ compile_done(i)
    \/ spawn_run(i)
    \/ communicate(i)
    \/ \E c \in SmallExitCodes, o \in SmallStreams :
          RunChildExits(i, c, o, <<" ", "a", " ">>)
    \/ LoopObservesExit(i)
    \/ wait_for_returns(i)
    \/ wait_for_timeout(i)
    \/ kill(i)
    \/ process_wait(i)

PathNext ==
    \/ PathStep(1)
    \/ Done(1) /\ PathStep(2)

PathSpec == ConcInit /\ [][PathNext]_vars

---------------------------------------------------------------------------
(* The executor as its owner uses it: invocations of execute_code one      *)
(* after the other (slot 1, the python path and an unregistered id, with   *)
(* and without a timeout) and calls of get_supported_languages, in any     *)
(* order and overlap.                                                      *)

SysNext ==
    \/ \E l \in {"python", "c"}, t \in SmallTimeoutArgs \cup {<<>>} :
          execute_code(1, l, <<"h">>, t)
    \/ TemporaryDirectory(1)
    \/ write_source(1)
    \/ spawn_run(1)
    \/ communicate(1)
    \/ \E c \in SmallExitCodes : RunChildExits(1, c, <<"a">>, <<>>)
    \/ LoopObservesExit(1)
    \/ wait_for_returns(1)
    \/ wait_for_timeout(1)
    \/ kill(1)
    \/ process_wait(1)
    \/ get_supported_languages
    \/ probe_spawn
    \/ \E c \in ProbeExitCodes : ProbeExits(c, <<"v", "\n">>)
    \/ probe_returns
    \/ probe_timeout

SysSpec == Init /\ [][SysNext]_vars

---------------------------------------------------------------------------
(* The /run-code endpoint, app.py lines 208-219 *)

\* the timeout run_code passes to execute_code
RunCodeTimeout == 30

\* a variant of ResponseStatus that reports only accepted runs as success
ResponseStatusAcceptedOnly(status) ==
    IF status = "Accepted" THEN "success"
    ELSE IF status = "Time Limit Exceeded" THEN "timeout"
    ELSE "error"

\* `"success" if result.status != "Time Limit Exceeded" else "timeout"`
ResponseStatus(status) ==
    IF status # "Time Limit Exceeded" THEN "success" ELSE "timeout"

\* the dict returned at lines 212-217 (`x or ""` leaves a str as it is)
ResultBody(r) ==
    [status |-> ResponseStatus(r.status), output |-> r.stdout,
     error |-> r.stderr, execution_status |-> r.status]

\* the dict returned by `except Exception as e`; it has no
\* execution_status and no output
ErrorBody(e) ==
    [status |-> "error", output |-> <<>>, error |-> StrOf(e),
     execution_status |-> ""]

\* the request arrives: execute_code(language, code, test_input, timeout=30)
\* (one request per slot)
run_code(i, language, test_input) ==
    /\ pc[i] = "idle"
    /\ execute_code(i, language, test_input, <<RunCodeTimeout>>)

\* execute_code has returned or raised: the handler answers
run_code_returns(i) ==
    /\ Done(i)
    /\ resp[i] = NoBody
    /\ resp' = [resp EXCEPT ![i] = IF pc[i] = "returned"
                                   THEN ResultBody(result[i])
                                   ELSE ErrorBody(raised[i])]
    /\ UNCHANGED <<languages, execVars, probeVars, appVars, llmVars>>

RunCodeNext ==
    \/ \E l \in LanguageArgs, s \in StdinArgs : run_code(1, l, s)
    \/ TemporaryDirectory(1)
    \/ write_source(1)
    \/ spawn_compiler(1)
    \/ \E c \in ExitCodes, e \in Streams : CompilerExits(1, c, e)
    \/ compile_done(1)
    \/ spawn_run(1)
    \/ communicate(1)
    \/ \E c \in ExitCodes, o \in Streams, e \in Streams :
          RunChildExits(1, c, o, e)
    \/ LoopObservesExit(1)
    \/ wait_for_returns(1)
    \/ wait_for_timeout(1)
    \/ kill(1)
    \/ process_wait(1)
    \/ run_code_returns(1)

RunCodeSpec == Init /\ [][RunCodeNext]_vars

---------------------------------------------------------------------------
(* The test endpoints of app.py over the tables of models.py.  A handler   *)
(* is one step: it reads, writes and commits in one session.  A Candidate  *)
(* is named by its email (unique), a Test by its place in `tests`.         *)

MCQ_LIMIT == 10

\* caps on the tables
MaxTests == 2
MaxAnswers == 2
MaxQuestions == 10

\* how many questions one generation call stores
QuestionBatches == {4, 5}

\* what one submitted answer is for the scorer: an MCQ answered right or
\* wrong, an MCQ whose response int() rejects, a coding question, an id
\* that names no Question, an id that int() rejects
AnswerKinds == {"right", "wrong", "unparsable", "coding", "unknown", "badid"}

\* payload.answers of the requests tried
AnswerSheets ==
    {<<"right">>, <<"wrong", "coding">>, <<"unknown", "unparsable">>,
     <<"right", "badid">>}

\* `score_mcq += 1` for every MCQ answer with int(response) == correct_answer
RECURSIVE ScoreMcq(_)
ScoreMcq(sheet) ==
    IF sheet = <<>> THEN 0
    ELSE (IF Head(sheet) = "right" THEN 1 ELSE 0) + ScoreMcq(Tail(sheet))

\* one Answer row is added for every answer whose Question exists
RECURSIVE AnswerRows(_)
AnswerRows(sheet) ==
    IF sheet = <<>> THEN 0
    ELSE (IF Head(sheet) = "unknown" THEN 0 ELSE 1) + AnswerRows(Tail(sheet))

\* int(ans.question_id) raises for some answer: the handler fails
SheetRaises(sheet) == \E k \in 1..Len(sheet) : sheet[k] = "badid"

Reply(op, code) == [op |-> op, code |-> code]

\* a variant of MayStart that leaves out the has_taken_test check
MayStartAgain(c) ==
    IF ~c.exists \/ ~c.authorized THEN "Not authorized"
    ELSE IF mcq[c.role] < MCQ_LIMIT THEN "Not enough questions generated."
    ELSE "ok"

\* start_test lines 175-185: the checks, in order
MayStart(c) ==
    IF ~c.exists \/ ~c.authorized THEN "Not authorized"
    ELSE IF c.has_taken_test THEN "Test already submitted"
    ELSE IF mcq[c.role] < MCQ_LIMIT THEN "Not enough questions generated."
    ELSE "ok"

\* sync_external_candidates for one item of the external list: a new email
\* is added unauthorized, a known one has its role brought up to date
sync_external_candidates(e, r) ==
    /\ cands' = [cands EXCEPT ![e] =
                   IF @.exists THEN [@ EXCEPT !.role = r]
                   ELSE [exists |-> TRUE, authorized |-> FALSE,
                         has_taken_test |-> FALSE, role |-> r]]
    /\ reply' = Reply("sync_external_candidates", 200)
    /\ UNCHANGED <<mcq, tests>>
    /\ UNCHANGED <<languages, execVars, probeVars, resp, llmVars>>

authorize_candidate(e) ==
    /\ IF ~cands[e].exists
       THEN /\ reply' = Reply("authorize_candidate", 404)
            /\ UNCHANGED cands
       ELSE /\ cands' = [cands EXCEPT ![e].authorized = TRUE]
            /\ reply' = Reply("authorize_candidate", 200)
    /\ UNCHANGED <<mcq, tests>>
    /\ UNCHANGED <<languages, execVars, probeVars, resp, llmVars>>

\* admin_generate_mcq: the generated questions are stored for the role, or
\* the generation fails and the session is rolled back
admin_generate_mcq(r, n) ==
    /\ \/ /\ mcq[r] + n <= MaxQuestions
          /\ mcq' = [mcq EXCEPT ![r] = @ + n]
          /\ reply' = Reply("admin_generate_mcq", 200)
       \/ /\ reply' = Reply("admin_generate_mcq", 500)
          /\ UNCHANGED mcq
    /\ UNCHANGED <<cands, tests>>
    /\ UNCHANGED <<languages, execVars, probeVars, resp, llmVars>>

start_test(e) ==
    /\ IF MayStart(cands[e]) = "Not authorized"
       THEN /\ reply' = Reply("start_test", 403)
            /\ UNCHANGED tests
       ELSE IF MayStart(cands[e]) # "ok"
       THEN /\ reply' = Reply("start_test", 400)
            /\ UNCHANGED tests
       ELSE /\ Len(tests) < MaxTests
            /\ tests' = Append(tests, [candidate_id |-> e, ended |-> FALSE,
                                        score_mcq |-> 0, total_score |-> 0,
                                        answers |-> 0])
            /\ reply' = Reply("start_test", 200)
    /\ UNCHANGED <<cands, mcq>>
    /\ UNCHANGED <<languages, execVars, probeVars, resp, llmVars>>

submit_answers(test_id, sheet) ==
    /\ IF test_id \notin 1..Len(tests)
       THEN /\ reply' = Reply("submit_answers", 400)
            /\ UNCHANGED <<cands, tests>>
       ELSE IF SheetRaises(sheet)
       THEN /\ reply' = Reply("submit_answers", 500)
            /\ UNCHANGED <<cands, tests>>
       ELSE /\ tests[test_id].answers + AnswerRows(sheet) <= MaxAnswers
            /\ tests' = [tests EXCEPT ![test_id] =
                           [@ EXCEPT !.answers = @ + AnswerRows(sheet),
                                     !.ended = TRUE,
                                     !.score_mcq = ScoreMcq(sheet),
                                     !.total_score = ScoreMcq(sheet)]]
            /\ cands' = [cands EXCEPT
                           ![tests[test_id].candidate_id].has_taken_test = TRUE]
            /\ reply' = Reply("submit_answers", 200)
    /\ UNCHANGED mcq
    /\ UNCHANGED <<languages, execVars, probeVars, resp, llmVars>>

reset_all ==
    /\ cands' = [e \in Emails |-> NoCandidate]
    /\ mcq' = [r \in Roles |-> 0]
    /\ tests' = <<>>
    /\ reply' = Reply("reset_all", 200)
    /\ UNCHANGED <<languages, execVars, probeVars, resp, llmVars>>

AppNext ==
    \/ \E e \in Emails, r \in Roles : sync_external_candidates(e, r)
    \/ \E e \in Emails : authorize_candidate(e)
    \/ \E r \in Roles, n \in QuestionBatches : admin_generate_mcq(r, n)
    \/ \E e \in Emails : start_test(e)
    \/ \E test_id \in 1..(MaxTests + 1), sheet \in AnswerSheets :
          submit_answers(test_id, sheet)
    \/ reset_all

AppSpec == Init /\ [][AppNext]_vars

---------------------------------------------------------------------------
(* make_llm_request, llm.py lines 242-265 *)

\* `for attempt in range(1, 3)`: the last value of attempt
LastAttempt == 2

Descs == {"MCQs", "Coding"}

\* what client.post can come back with: an exception (status 0), or a
\* response with a status code and a body; a 200 body is JSON with a text
\* under "response", JSON without that key, JSON whose "response" is not a
\* string, or no JSON at all
PostAnswers ==
    {[status |-> 0, body |-> "ConnectError", text |-> ""],
     [status |-> 200, body |-> "response", text |-> "t1"],
     [status |-> 200, body |-> "response", text |-> "t2"],
     [status |-> 200, body |-> "no key", text |-> "str(api_json)"],
     [status |-> 200, body |-> "null response", text |-> ""],
     [status |-> 200, body |-> "not json", text |-> "h1"],
     [status |-> 500, body |-> "response", text |-> "e1"],
     [status |-> 404, body |-> "not json", text |-> "h2"]}

\* a variant of Answered200 that takes every response for a good one
AnsweredAtAll(o) == o.status # 0

\* `if resp.status_code == 200`
Answered200(o) == o.status = 200

\* resp.json(), api_json.get("response", str(api_json)) and len(result_text)
\* go through without an exception
Readable(o) == o.body \in {"response", "no key"}

\* the call starts: the loop is entered with attempt = 1
make_llm_request(d) ==
    /\ lpc = "idle"
    /\ lpc' = "post"
    /\ attempt' = 1
    /\ lret' = [lret EXCEPT !.desc = d]
    /\ UNCHANGED posts
    /\ UNCHANGED <<languages, execVars, probeVars, resp, appVars>>

\* after the body of the loop: next attempt, or
\* `raise RuntimeError(f"Failed to generate {desc}")`
NextAttempt ==
    IF attempt = LastAttempt
    THEN /\ lpc' = "raised"
         /\ lret' = [lret EXCEPT !.kind = "RuntimeError", !.text = lret.desc]
         /\ UNCHANGED attempt
    ELSE /\ lpc' = "post"
         /\ attempt' = attempt + 1
         /\ UNCHANGED lret

\* one `await client.post(...)` and what the try block does with its answer:
\* return the text, fall into the except (a raised post, or a 200 body that
\* cannot be read), or log the status and go round
post(o) ==
    /\ lpc = "post"
    /\ posts' = Append(posts, o)
    /\ IF o.status = 0
       THEN /\ lpc' = "sleep"
            /\ UNCHANGED <<attempt, lret>>
       ELSE IF Answered200(o)
       THEN IF Readable(o)
            THEN /\ lpc' = "returned"
                 /\ lret' = [lret EXCEPT !.kind = "returned", !.text = o.text]
                 /\ UNCHANGED attempt
            ELSE /\ lpc' = "sleep"
                 /\ UNCHANGED <<attempt, lret>>
       ELSE NextAttempt
    /\ UNCHANGED <<languages, execVars, probeVars, resp, appVars>>

\* `await asyncio.sleep(2)` in the except branch is over
sleep_over ==
    /\ lpc = "sleep"
    /\ NextAttempt
    /\ UNCHANGED posts
    /\ UNCHANGED <<languages, execVars, probeVars, resp, appVars>>

LlmNext ==
    \/ \E d \in Descs : make_llm_request(d)
    \/ \E o \in PostAnswers : post(o)
    \/ sleep_over

LlmSpec == Init /\ [][LlmNext]_vars

---------------------------------------------------------------------------
(* Properties *)

Started(i) == pc[i] \notin {"off", "idle"}

TimeLimitExceeded(r) ==
    /\ r.status = "Time Limit Exceeded"
    /\ r.stdout = <<>>
    /\ r.stderr = TLEBytes
    /\ r.timeout = TRUE

\* C1: an invocation that passed the language check has, when it returns
\* or raises, created exactly one workspace directory, and that directory
\* no longer exists.
C1_OneWorkspaceRemoved ==
    \A i \in Calls :
        (Done(i) /\ IsRegistered(req[i].language)) =>
            (created[i] = 1 /\ ws[i] \notin dirs)

\* C2: for a registered language the call never raises: it ends with an
\* ExecutionResult, whatever the source, stdin and timeout argument.
C2_RegisteredNeverRaises ==
    \A i \in Calls :
        (Done(i) /\ IsRegistered(req[i].language)) =>
            (pc[i] = "returned" /\ raised[i] = "" /\ result[i] # NoResult)

\* C3: a call with an unregistered language id fails with the
\* unsupported-language error before any side effect: no directory, no
\* source file, no child process, no ExecutionResult.
C3_UnsupportedFailsFast ==
    \A i \in Calls :
        (Started(i) /\ ~IsRegistered(req[i].language)) =>
            /\ pc[i] = "raised"
            /\ raised[i] = "ValueError"
            /\ created[i] = 0
            /\ ws[i] = 0
            /\ ~srcWritten[i]
            /\ spawnLog[i] = <<>>
            /\ comp[i].state = "none"
            /\ run[i].state = "none"
            /\ result[i] = NoResult

C3_Witness ==
    \E i \in Calls :
        /\ pc[i] = "raised"
        /\ req[i].language = "c"
        /\ req[i].timeout # <<>>
        /\ raised[i] = "ValueError"

\* C4: when the timeout elapsed while the run child was still running, the
\* invocation returns the Time Limit Exceeded result (stdout empty, stderr
\* "Time Limit Exceeded", timedOut true) after the child was killed and
\* its termination awaited.
C4_TimeoutKillsAndReports ==
    \A i \in Calls :
        (pc[i] = "returned" /\ run[i].atTimeout = "running") =>
            /\ TimeLimitExceeded(result[i])
            /\ run[i].state = "reaped"

\* C5: an invocation whose run child never exits on its own eventually
\* returns, with status Time Limit Exceeded, timedOut true and empty stdout,
\* in every registered language.
C5_HangingChildTimesOut ==
    \A i \in Calls : \A l \in DOMAIN InitialLanguages :
        (pc[i] = "run_wait" /\ run[i].hangs /\ req[i].language = l)
            ~> (/\ pc[i] = "returned"
                /\ req[i].language = l
                /\ result[i].status = "Time Limit Exceeded"
                /\ result[i].timeout = TRUE
                /\ result[i].stdout = <<>>)

C5_Witness ==
    \E i \in Calls :
        /\ pc[i] = "returned"
        /\ run[i].hangs
        /\ run[i].state = "reaped"
        /\ req[i].language = "java"
        /\ result[i].status = "Time Limit Exceeded"

\* C6: after an invocation that timed out has returned, neither the run
\* child nor a process the run child spawned is still running.
C6_ProcessTreeTerminated ==
    \A i \in Calls :
        (pc[i] = "returned" /\ result[i].timeout) =>
            (run[i].state # "running" /\ ~desc[i])

\* C7: in java and cpp, when the compiler exits with a non-zero code c the
\* invocation returns status Compilation Error, exitCode c, the compiler's
\* stderr as stderr, empty stdout and timedOut false.
C7_CompilationError ==
    \A i \in Calls :
        (/\ pc[i] = "returned"
         /\ req[i].language \in {"java", "cpp"}
         /\ comp[i].state = "reaped"
         /\ comp[i].code # 0) =>
            /\ result[i].status = "Compilation Error"
            /\ result[i].exit_code = comp[i].code
            /\ result[i].stderr = Decode(comp[i].err)
            /\ result[i].stdout = <<>>
            /\ result[i].timeout = FALSE

C7_Witness ==
    \E i \in Calls :
        /\ pc[i] = "returned"
        /\ req[i].language = "cpp"
        /\ comp[i].state = "reaped"
        /\ comp[i].code = 3
        /\ comp[i].err # <<>>
        /\ result[i].status = "Compilation Error"

\* C8: in a compiled language the run child is spawned only after the
\* compiler child has exited with code 0, and after a non-zero compiler
\* exit the run child is never spawned in that invocation.
C8_CompilePrecedesRun ==
    \A i \in Calls :
        (Started(i) /\ req[i].language \in {"java", "cpp"}) =>
            /\ (run[i].state # "none" \/ "run" \in {spawnLog[i][k] :
                                                    k \in 1..Len(spawnLog[i])})
                  => (/\ comp[i].state = "reaped"
                      /\ comp[i].code = 0
                      /\ spawnLog[i] = <<"compile", "run">>)
            /\ (comp[i].state \in {"exited", "reaped"} /\ comp[i].code # 0)
                  => (run[i].state = "none" /\ spawnLog[i] = <<"compile">>)

C8_Witness ==
    \E i \in Calls :
        /\ req[i].language = "java"
        /\ comp[i].state = "reaped"
        /\ run[i].state = "running"
        /\ spawnLog[i] = <<"compile", "run">>

\* C9: a result built by a run phase has its status fixed by timedOut and
\* the exit code: timedOut gives Time Limit Exceeded, else a non-zero exit
\* code gives Runtime Error, else Accepted, in every language; Accepted
\* never comes with a non-zero exitCode or with timedOut.
C9_StatusRule ==
    \A i \in Calls :
        /\ (pc[i] = "returned" /\ origin[i] = "run") =>
              result[i].status =
                 (IF result[i].timeout THEN "Time Limit Exceeded"
                  ELSE IF result[i].exit_code # 0 THEN "Runtime Error"
                  ELSE "Accepted")
        /\ (pc[i] = "returned" /\ result[i].status = "Accepted") =>
              (result[i].exit_code = 0 /\ ~result[i].timeout)

C9_Witness ==
    \E i \in Calls :
        /\ pc[i] = "returned"
        /\ origin[i] = "run"
        /\ req[i].language = "javascript"
        /\ result[i].timeout
        /\ result[i].exit_code = SIGKILLED
        /\ result[i].status = "Time Limit Exceeded"

\* C10: a call without a timeout argument uses the registry's default
\* timeout of the language, 30 seconds, and goes on normally.
C10_DefaultTimeoutUsed ==
    \A i \in Calls :
        (Started(i) /\ IsRegistered(req[i].language) /\ req[i].timeout = <<>>)
            => (raised[i] = "" /\ budget[i] = 30)

\* an invocation that holds a workspace
Live(i) == pc[i] \notin {"off", "idle", "entered", "returned", "raised"}

\* C11: when invocations overlap, also two of the same request, each one
\* has a workspace directory of its own that exists as long as it runs and
\* holds its own source, its children run that source, its result is made
\* of the exit code and streams of its own children, and the directories
\* on disk are those of the running invocations only.
C11_Isolation ==
    /\ \A i \in Calls : \A j \in Calls \ {i} :
          (Live(i) /\ Live(j)) => ws[i] # ws[j]
    /\ \A i \in Calls :
          Live(i) => /\ ws[i] \in dirs
                     /\ srcWritten[i] => files[ws[i]] = i
    /\ dirs = {ws[i] : i \in {j \in Calls : Live(j)}}
    /\ \A i \in Calls :
          /\ comp[i].state # "none" => comp[i].program = i
          /\ run[i].state # "none" => run[i].program = i
    /\ \A i \in Calls :
          /\ (pc[i] = "returned" /\ origin[i] = "run" /\ ~result[i].timeout) =>
                /\ result[i].stdout = Strip(Decode(run[i].out))
                /\ result[i].stderr = Strip(Decode(run[i].err))
                /\ result[i].exit_code = run[i].code
          /\ (pc[i] = "returned" /\ origin[i] = "compile") =>
                /\ result[i].stderr = Decode(comp[i].err)
                /\ result[i].exit_code = comp[i].code

C11_Witness ==
    /\ req[1] = req[2]
    /\ pc[1] = "returned"
    /\ origin[1] = "run"
    /\ result[1].status = "Accepted"
    /\ pc[2] = "run_wait"
    /\ run[2].state = "exited"
    /\ run[2].code = 3

\* C12: when the run child completes before the timeout, the result passes
\* its outcome through in every registered language: exit code 0 gives
\* Accepted, exitCode 0 and the trimmed stdout; a non-zero exit code n gives
\* Runtime Error and exitCode n; timedOut is false; and every registered id
\* reaches a run path, none the "not implemented" branch.
C12_PassThrough ==
    /\ \A i \in Calls :
          (pc[i] = "returned" /\ run[i].state = "closed"
                              /\ run[i].atTimeout = "") =>
             /\ result[i].timeout = FALSE
             /\ run[i].code = 0 =>
                   /\ result[i].status = "Accepted"
                   /\ result[i].exit_code = 0
                   /\ result[i].stdout = Strip(Decode(run[i].out))
             /\ run[i].code # 0 =>
                   /\ result[i].status = "Runtime Error"
                   /\ result[i].exit_code = run[i].code
    /\ \A l \in DOMAIN languages : RunPath(l) # "not implemented"
    /\ \A i \in Calls : origin[i] # "not implemented"

C12_Witness ==
    \E i \in Calls :
        /\ pc[i] = "returned"
        /\ req[i].language = "javascript"
        /\ run[i].state = "closed"
        /\ run[i].atTimeout = ""
        /\ run[i].code = 0
        /\ run[i].out = <<" ", "a", " ">>
        /\ result[i].stdout = <<"a">>

\* C13: when spawning the compiler or the run command fails, the call does
\* not raise: it returns status Runtime Error, a non-zero exitCode, empty
\* stdout, timedOut false and the failure description in stderr, and the
\* workspace is removed.
C13_SpawnFailureAbsorbed ==
    \A i \in Calls :
        (Done(i) /\ origin[i] \in {"spawn_compiler", "spawn_run"}) =>
            /\ pc[i] = "returned"
            /\ raised[i] = ""
            /\ result[i].status = "Runtime Error"
            /\ result[i].exit_code # 0
            /\ result[i].stdout = <<>>
            /\ result[i].timeout = FALSE
            /\ result[i].stderr = <<"FileNotFoundError">>
            /\ created[i] = 1
            /\ ws[i] \notin dirs

C13_Witness ==
    \E i \in Calls :
        /\ pc[i] = "returned"
        /\ origin[i] = "spawn_run"
        /\ req[i].language = "java"
        /\ comp[i].state = "reaped"
        /\ run[i].state = "none"

\* C14: when creating the workspace directory fails, the invocation ends
\* with an ExecutionResult of status Runtime Error that carries the failure
\* description in stderr, and nothing is raised to the caller.
C14_WorkspaceFailureAbsorbed ==
    \A i \in Calls :
        (Done(i) /\ budget[i] # 0 /\ created[i] = 0) =>
            /\ pc[i] = "returned"
            /\ raised[i] = ""
            /\ result[i].status = "Runtime Error"
            /\ result[i].stderr # <<>>

\* C15: on every exit path no child spawned by the invocation is still
\* running when it returns, and its workspace is removed.
C15_NoChildOutlivesCall ==
    \A i \in Calls :
        Done(i) => /\ comp[i].state # "running"
                   /\ run[i].state # "running"
                   /\ ws[i] \notin dirs

\* C16: an invocation spawns at most two children: at most one compiler
\* (none for python and javascript) and at most one run child, the compiler
\* first; no phase is started a second time.
C16_AtMostTwoChildren ==
    \A i \in Calls :
        /\ spawnLog[i] \in {<<>>, <<"compile">>, <<"run">>, <<"compile", "run">>}
        /\ (Started(i) /\ req[i].language \in {"python", "javascript"}) =>
              spawnLog[i] \in {<<>>, <<"run">>}

C16_Witness ==
    \E i \in Calls :
        /\ pc[i] = "returned"
        /\ req[i].language = "python"
        /\ result[i].status = "Runtime Error"
        /\ origin[i] = "run"
        /\ spawnLog[i] = <<"run">>

\* C17: the caller's stdin reaches the run child, never the compiler, and
\* the child's stdin is then closed, also when stdin is empty, so the child
\* sees end-of-input.
C17_StdinDeliveredAndClosed ==
    \A i \in Calls :
        /\ comp[i].input = <<>>
        /\ pc[i] \in {"run_wait", "cancelling", "reaping"} =>
              /\ run[i].input = req[i].stdin
              /\ run[i].stdinClosed

\* C18: the registry holds exactly one entry for each of python, java, cpp
\* and javascript, the one __init__ built, whatever execute_code and
\* get_supported_languages calls have run and however they ended.
C18_RegistryReadOnly ==
    /\ DOMAIN languages = {"python", "java", "cpp", "javascript"}
    /\ languages = InitialLanguages

C18_Witness ==
    /\ gpc = "returned"
    /\ Len(glist) = 4
    /\ pc[1] = "returned"
    /\ result[1].status = "Time Limit Exceeded"

\* C19: get_supported_languages returns one entry per registered language
\* in registry order; a probe whose binary is missing, which exits
\* non-zero or which does not finish within the probe timeout gives
\* available = false for that language, and each entry depends on the probe
\* of its own language only.
C19_ProbeFailuresAbsorbed ==
    /\ gpc = "returned" => Len(glist) = Len(LanguageKeys)
    /\ gpc \in {"spawn", "wait"} => Len(glist) = gidx - 1
    /\ \A n \in 1..Len(glist) :
          LET k == LanguageKeys[n]
              e == glist[n]
          IN  /\ e.key = k
              /\ e.id = n
              /\ e.name = InitialLanguages[k].name
              /\ e.timeout_seconds = 30
              /\ probe[k].state \in {"missing", "abandoned", "gone",
                                     "unreaped"} => ~e.available
              /\ (probe[k].state = "reaped" /\ probe[k].code # 0)
                    => ~e.available
              /\ ~e.available => e.version = NotAvailable
              /\ (probe[k].state = "reaped" /\ probe[k].code = 0
                    /\ DecodableStrict(probe[k].out)) => e.available

C19_Witness ==
    /\ gpc = "returned"
    /\ probe["python"].state = "reaped" /\ probe["python"].code = 0
    /\ probe["java"].state = "missing"
    /\ probe["cpp"].state = "reaped" /\ probe["cpp"].code = 1
    /\ probe["javascript"].state = "abandoned"
    /\ glist[1].available
    /\ ~glist[4].available

\* C20: timedOut is true only in a result built by the timeout branch of
\* the run phase (timer expired, kill() issued, termination awaited);
\* results of compilation failures, of infrastructure failures and of runs
\* that completed on their own have timedOut false; the status is Time
\* Limit Exceeded exactly when timedOut is true.
C20_TimedOutFlag ==
    \A i \in Calls :
        pc[i] = "returned" =>
            /\ result[i].timeout =>
                  /\ origin[i] = "run"
                  /\ run[i].atTimeout # ""
                  /\ run[i].state = "reaped"
            /\ origin[i] # "run" => ~result[i].timeout
            /\ run[i].atTimeout = "" => ~result[i].timeout
            /\ (result[i].status = "Time Limit Exceeded") <=> result[i].timeout

C20_Witness ==
    \E i \in Calls :
        /\ pc[i] = "returned"
        /\ origin[i] = "compile"
        /\ result[i].status = "Compilation Error"
        /\ ~result[i].timeout

\* C21: an invocation of a compiled language whose compiler child never
\* exits still eventually returns, and the compiler child is not left
\* running.
C21_CompilerWaitCancellable ==
    \A i \in Calls :
        (pc[i] = "compile_wait" /\ comp[i].hangs)
            ~> (Done(i) /\ comp[i].state # "running")

\* C22: an invocation that reached the race between its run child's
\* completion and the timeout returns one of two results: the child's own
\* exit code and captured streams with timedOut false, or the Time Limit
\* Exceeded result with timedOut true; never a third one.
C22_RaceTwoOutcomes ==
    \A i \in Calls :
        (pc[i] = "returned" /\ origin[i] \in {"run", "kill"}) =>
            \/ result[i] = RunResult(run[i].out, run[i].err, run[i].code, FALSE)
            \/ TimeLimitExceeded(result[i])

\* C23: every ExecutionResult that carries captured output (accepted run,
\* runtime error, timeout, compilation error) has stdout and stderr without
\* leading or trailing whitespace.
C23_OutputTrimmed ==
    \A i \in Calls :
        (pc[i] = "returned" /\ origin[i] \in {"run", "compile"}) =>
            /\ result[i].stdout = Strip(result[i].stdout)
            /\ result[i].stderr = Strip(result[i].stderr)

\* what the children of invocation i did: the compiler's failure, if any,
\* and the run child's exit code, streams and timing against the timer
ChildOutcomes(i) ==
    [compile |-> IF comp[i].state = "reaped" /\ comp[i].code # 0
                 THEN <<comp[i].code, comp[i].err>> ELSE <<>>,
     state |-> run[i].state, code |-> run[i].code, out |-> run[i].out,
     err |-> run[i].err, atTimeout |-> run[i].atTimeout,
     stdin |-> run[i].input, closed |-> run[i].stdinClosed]

\* invocation i got as far as its children and was ended by what they did
EndedByChildren(i) ==
    pc[i] = "returned" /\ origin[i] \in {"compile", "run", "kill"}

C25_NoProbeLeftBehind ==
    gpc = "returned" =>
        \A k \in DOMAIN probe : probe[k].state \notin {"running", "abandoned"}

\* C26: /run-code answers with a body whatever execute_code did: "error"
\* when it raised (an unregistered language or anything else), "timeout"
\* for a Time Limit Exceeded result, "success" with the result's status as
\* execution_status for every other result; and it always passes the
\* timeout 30.
C26_RunCodeAnswers ==
    \A i \in Calls :
        /\ Started(i) => req[i].timeout = <<30>>
        /\ pc[i] \notin {"off", "idle", "raised"} => budget[i] = 30
        /\ raised[i] # "KeyError"
        /\ resp[i] # NoBody =>
              /\ pc[i] = "raised" =>
                    /\ resp[i].status = "error"
                    /\ resp[i].error = <<raised[i]>>
              /\ (pc[i] = "returned"
                    /\ result[i].status = "Time Limit Exceeded") =>
                    /\ resp[i].status = "timeout"
                    /\ resp[i].execution_status = "Time Limit Exceeded"
              /\ (pc[i] = "returned"
                    /\ result[i].status # "Time Limit Exceeded") =>
                    /\ resp[i].status = "success"
                    /\ resp[i].execution_status = result[i].status
                    /\ resp[i].output = result[i].stdout
                    /\ resp[i].error = result[i].stderr

C26_Witness ==
    \E i \in Calls :
        /\ resp[i].status = "success"
        /\ resp[i].execution_status = "Compilation Error"
        /\ req[i].language = "java"

\* candidate e has a Test with end_time set
Scored(e) ==
    \E k \in 1..Len(tests) : tests[k].candidate_id = e /\ tests[k].ended

\* C27: a step creates a Test only as the accepted start_test of a
\* candidate that exists, is authorized, has has_taken_test false and whose
\* role has at least 10 MCQ questions; a rejected start_test creates none;
\* and a candidate with a submitted test gets no further Test.
C27_StartTestGuarded ==
    [][/\ Len(tests') > Len(tests) =>
             LET t == tests'[Len(tests')]
                 c == cands[t.candidate_id]
             IN  /\ Len(tests') = Len(tests) + 1
                 /\ reply' = Reply("start_test", 200)
                 /\ c.exists /\ c.authorized /\ ~c.has_taken_test
                 /\ mcq[c.role] >= 10
                 /\ ~Scored(t.candidate_id)
                 /\ ~t.ended
       /\ (reply'.op = "start_test" /\ reply'.code # 200) => tests' = tests
       /\ (reply'.op = "start_test" /\ reply'.code = 200) =>
             Len(tests') = Len(tests) + 1
       /\ \A e \in Emails : Scored(e) => cands[e].has_taken_test
      ]_vars

C27_Witness ==
    /\ reply = Reply("start_test", 400)
    /\ Scored("a")
    /\ cands["a"].authorized
    /\ mcq[cands["a"].role] >= 10
    /\ ~cands["b"].exists
    /\ Len(tests) = 1

\* C28: no candidate ever has two Tests with end_time set, and a step
\* leaves the Answer rows, score_mcq and total_score of a Test that is
\* already submitted as they are.
C28_ScoredOnce ==
    [][/\ \A j, k \in 1..Len(tests') :
             (j # k /\ tests'[j].ended /\ tests'[k].ended) =>
                tests'[j].candidate_id # tests'[k].candidate_id
       /\ \A k \in 1..Len(tests) :
             (tests[k].ended /\ k <= Len(tests')) =>
                /\ tests'[k].answers = tests[k].answers
                /\ tests'[k].score_mcq = tests[k].score_mcq
                /\ tests'[k].total_score = tests[k].total_score
      ]_vars

====
